---- MODULE Spec2Model ----
(***************************************************************************)
(* Model of the procurement bots of postulapro-web:                        *)
(*   agents/wherex/wherex_bot.py, agents/mercado_publico/mp_bot.py,        *)
(*   agents/senegocia/senegocia_bot.py  (the bidding run, Spec)            *)
(*   wherex_mass_postulate.py           (find_matching_products, SpecMatch;*)
(*                                       load_price_list, SpecLoad)        *)
(***************************************************************************)
EXTENDS Integers, Sequences, FiniteSets, TLC

\* ------------------------------------------------------------------ bounds
\* longest price list (rows of the CSV / products of the catalog)
MaxCatalog == 2
\* longest opportunity listing shown by the portal
MaxOpps == 2
\* number of consecutive runs of a bot over the same listing
MaxRuns == 2
\* longest requested-item text given to find_matching_products (item
\* descriptions are not empty)
MaxTextLen == 2
\* longest requested_items list given to find_matching_products
MaxReq == 1
\* most data rows of a CSV price list, most objects of a JSON price list
MaxRows == 2
MaxMainRows == 1
MaxAgents == 3

\* ----------------------------------------------------------------- strings
\* A string is a sequence of characters; "D" and "J" are the upper-case
\* forms of "d" and "j".
Alphabet == {"d", "D", "j"}

lower_char(c) == CASE c = "D" -> "d" [] c = "J" -> "j" [] OTHER -> c

\* str.lower()
lower(s) == [k \in 1..Len(s) |-> lower_char(s[k])]

\* Python's `sub in s` on strings: s has a contiguous run equal to sub
\* (the empty string is in every string).
str_in(sub, s) ==
    \E k \in 0..(Len(s) - Len(sub)) : SubSeq(s, k + 1, k + Len(sub)) = sub

\* all non-empty strings over Alphabet of length at most n
StringsUpTo(n) == UNION {[1..m -> Alphabet] : m \in 1..n}

\* all sequences over S of length at most n
SeqsUpTo(S, n) == UNION {[1..m -> S] : m \in 0..n}

\* ---------------------------------------------------------------- variables
VARIABLES
    \* --- a run of a procurement bot (Spec)
    bot,            \* which bot's main() runs: "wherex", "mp" or "senegocia"
    lista_precios,  \* rows of the price-list CSV, in file order
    listing,        \* texts of the opportunity items the portal shows, in page order
    pc,             \* position of main()
    run,            \* number of the current execution of the script
    i,              \* index of the opportunity the outer loop is at
    j,              \* index of the price-list row the inner loop is at
    session,        \* result of the login call: "none", "ok", "failed"
    listed,         \* the opportunity page has been requested in this run
    browser,        \* "none", "open", "closed" (browser.close()) or "terminated"
    error,          \* exception that left main(), "none" while there is none
    sheet,          \* rows of the Google Sheet (it outlives the runs)
    calls,          \* history of the postulation calls made on the portal
    clock,          \* datetime.now(), counted in events
    \* --- find_matching_products (SpecMatch)
    requested_items, products, matches, mpc,
    \* --- load_price_list (SpecLoad)
    price_file,     \* the file at `path`: suffix, CSV header and rows, JSON objects
    loaded,         \* the list load_price_list returned
    load_exc,       \* the exception load_price_list raised, "none" if none
    lpc,            \* "input", "returned" or "raised"
    \* --- main() of wherex_mass_postulate.py (SpecMain)
    username,       \* os.getenv("WHEREX_USERNAME"): None, "" or a name
    password,       \* os.getenv("WHEREX_PASSWORD"): None, "" or a password
    main_pc,        \* position of main(): "env", "load", "launch", "login", ...
    main_browser,   \* "none", "open", "closed" or "terminated"
    login_called,   \* login() has been called (its page.goto is the first request)
    main_error,     \* exception that left main(), "none" while there is none
    \* --- load_config (SpecConfig)
    environ,        \* os.environ, restricted to the keys load_config reads
    config_toml,    \* config.toml: whether it exists, and its tables
    tomllib,        \* whether `import tomllib` succeeded
    cfg,            \* the dictionary load_config returned
    cpc,            \* "input" or "returned"
    \* --- the orchestrator (SpecOrchestrator)
    agents,         \* AGENTS.items(), in insertion order
    at,             \* index of the agent main()'s loop is at
    opc,            \* position of the orchestrator's main()
    visited,        \* what run_bot did for each agent it was called for
    output          \* what the orchestrator printed

bot_vars == <<bot, lista_precios, listing, pc, run, i, j, session, listed,
              browser, error, sheet, calls, clock>>
match_vars == <<requested_items, products, matches, mpc>>
load_vars == <<price_file, loaded, load_exc, lpc>>
main_vars == <<username, password, main_pc, main_browser, login_called, main_error>>
cfg_vars == <<environ, config_toml, tomllib, cfg, cpc>>
orch_vars == <<agents, at, opc, visited, output>>
aux_vars == <<main_vars, cfg_vars, orch_vars>>
vars == <<bot_vars, match_vars, load_vars, aux_vars>>

\* ------------------------------------------------------------ sample inputs
Bots == {"wherex", "mp", "senegocia"}

\* rows of lista_precios.csv (columns Codigo, Descripcion, Precio)
PriceRows == {
    [Codigo |-> "A1", Descripcion |-> <<"D", "j">>, Precio |-> 10000],
    [Codigo |-> "B2", Descripcion |-> <<"j">>,      Precio |-> 2500] }

\* inner texts of the opportunity items: the first contains both
\* descriptions, the second only the one of B2, the third none (it is itself
\* contained in the description of A1).
OppTexts == { <<"d", "j", "d">>, <<"J">>, <<"d">> }

\* ------------------------------------------------------- one run of a bot
\* a variant of the test with its operands swapped:
\* nombre.lower() in prod["Descripcion"].lower()
coincide_inverso(prod, nombre) == str_in(lower(nombre), lower(prod.Descripcion))

\* the inner-loop test: prod["Descripcion"].lower() in nombre.lower()
coincide(prod, nombre) == str_in(lower(prod.Descripcion), lower(nombre))

\* postulate() of mp_bot and postulate_opportunity() of senegocia_bot wrap the
\* whole submission in try/except Exception and only print; wherex_bot's
\* postular_oportunidad has no handler.
swallows_submit_error(b) == b \in {"mp", "senegocia"}

\* the status label of the row a bot appends
estado_de(b) ==
    CASE b = "wherex" -> "Postulado en Wherex"
      [] b = "mp" -> "Postulado en MP"
      [] b = "senegocia" -> "Postulado en Senegocia"
      [] b = "facebook" -> "Postulado en Facebook"

\* a variant of the row built from the first row of the price list instead
\* of the matched one
fila_primera(prod, b, now, opp, r) ==
    [fecha |-> now, Codigo |-> lista_precios[1].Codigo,
     Descripcion |-> lista_precios[1].Descripcion,
     Precio |-> lista_precios[1].Precio, estado |-> estado_de(b),
     oportunidad |-> opp, ejecucion |-> r]

\* the row registrar_postulacion appends; oportunidad and ejecucion are not
\* columns of the sheet, they record which opportunity and run the row was
\* written for.
fila(prod, b, now, opp, r) ==
    [fecha |-> now, Codigo |-> prod.Codigo, Descripcion |-> prod.Descripcion,
     Precio |-> prod.Precio, estado |-> estado_de(b),
     oportunidad |-> opp, ejecucion |-> r]

\* a variant of main() that launches the browser outside any `async with`
\* block: nothing happens to the browser when an exception leaves main()
sin_async_with(b) == b

\* control leaves the block of `async with async_playwright() as p`, normally
\* or with an exception: the context manager stops Playwright, and a browser
\* that was launched from it and is still open is terminated with it
exit_async_with(b) == IF b = "open" THEN "terminated" ELSE b

\* an exception leaves main(): browser.close() is skipped, the `async with`
\* block is left on the way out, the process ends
raise_from_main(exc) ==
    /\ pc' = "aborted"
    /\ error' = exc
    /\ browser' = exit_async_with(browser)

BotInit ==
    /\ bot \in Bots
    /\ lista_precios \in SeqsUpTo(PriceRows, MaxCatalog)
    /\ listing \in SeqsUpTo(OppTexts, MaxOpps)
    /\ pc = "cargar"
    /\ run = 1
    /\ i = 1
    /\ j = 1
    /\ session = "none"
    /\ listed = FALSE
    /\ browser = "none"
    /\ error = "none"
    /\ sheet = <<>>
    /\ calls = <<>>
    /\ clock = 0

\* cargar_lista_precios(): the CSV is read, or FileNotFoundError leaves main()
cargar_lista_precios ==
    /\ pc = "cargar"
    /\ \E found \in BOOLEAN :
         IF found
         THEN /\ pc' = "conectar"
              /\ error' = error
              /\ browser' = browser
         ELSE raise_from_main("FileNotFoundError")
    /\ UNCHANGED <<bot, lista_precios, listing, run, i, j, session, listed,
                   sheet, calls, clock, match_vars, load_vars, aux_vars>>

\* conectar_google_sheet(), then `async with async_playwright()`,
\* chromium.launch() and new_page()
conectar_google_sheet ==
    /\ pc = "conectar"
    /\ \E authorized \in BOOLEAN :
         IF authorized
         THEN /\ pc' = "login"
              /\ browser' = "open"
              /\ error' = error
         ELSE raise_from_main("SheetError")
    /\ UNCHANGED <<bot, lista_precios, listing, run, i, j, session, listed,
                   sheet, calls, clock, match_vars, load_vars, aux_vars>>

\* a variant of login_wherex that catches the failure of the login and goes on
login_sin_abortar ==
    /\ pc = "login"
    /\ \E ok \in BOOLEAN :
         /\ session' = IF ok THEN "ok" ELSE "failed"
         /\ pc' = "listar"
         /\ error' = error
    /\ UNCHANGED <<bot, lista_precios, listing, run, i, j, listed, browser,
                   sheet, calls, clock, match_vars, load_vars, aux_vars>>

\* login_wherex / login_mp / login_senegocia: goto, fill, click, wait; any of
\* them raising leaves main(), nothing in main() catches it
login_wherex ==
    /\ pc = "login"
    /\ \E ok \in BOOLEAN :
         IF ok
         THEN /\ session' = "ok"
              /\ pc' = "listar"
              /\ error' = error
              /\ browser' = browser
         ELSE /\ session' = "failed"
              /\ raise_from_main("AuthenticationFailure")
    /\ UNCHANGED <<bot, lista_precios, listing, run, i, j, listed,
                   sheet, calls, clock, match_vars, load_vars, aux_vars>>

\* head of procesar_oportunidades: goto the opportunity page,
\* wait_for_selector (it times out when the page shows no item) and
\* query_selector_all
listar_oportunidades ==
    /\ pc = "listar"
    /\ listed' = TRUE
    /\ \E ok \in BOOLEAN :
         IF ok /\ listing # <<>>
         THEN /\ pc' = "scan"
              /\ i' = 1
              /\ j' = 1
              /\ error' = error
              /\ browser' = browser
         ELSE /\ raise_from_main("TimeoutError")
              /\ UNCHANGED <<i, j>>
    /\ UNCHANGED <<bot, lista_precios, listing, run, session, sheet,
                   calls, clock, match_vars, load_vars, aux_vars>>

\* the statements of the body of `if coincide:`, in program order
paso_registrar_primero(p) ==
    CASE p = "abrir" -> "registrar"
      [] p = "registrar" -> "postular"
      [] p = "postular" -> "volver"

paso_siguiente(p) ==
    CASE p = "abrir" -> "postular"
      [] p = "postular" -> "registrar"
      [] p = "registrar" -> "volver"

\* a variant of the loop body without its `break`: the inner loop goes on
\* with the next price-list row
sin_break(oi, pj) == [i |-> oi, j |-> pj + 1]

\* `break`: the inner loop ends, the outer loop takes the next opportunity
tras_postular(oi, pj) == [i |-> oi + 1, j |-> 1]

\* one test of the inner loop `for _, prod in lista_precios.iterrows()`
comparar_producto ==
    /\ pc = "scan"
    /\ i <= Len(listing)
    /\ j <= Len(lista_precios)
    /\ IF coincide(lista_precios[j], listing[i])
       THEN /\ pc' = "abrir"
            /\ j' = j
       ELSE /\ pc' = pc
            /\ j' = j + 1
    /\ UNCHANGED <<bot, lista_precios, listing, run, i, session, listed,
                   browser, error, sheet, calls, clock, match_vars, load_vars, aux_vars>>

\* the inner loop ran out of rows: next opportunity of the outer loop
siguiente_oportunidad ==
    /\ pc = "scan"
    /\ i <= Len(listing)
    /\ j > Len(lista_precios)
    /\ i' = i + 1
    /\ j' = 1
    /\ UNCHANGED <<bot, lista_precios, listing, pc, run, session, listed,
                   browser, error, sheet, calls, clock, match_vars, load_vars, aux_vars>>

\* oportunidad.click() and wait_for_load_state
abrir_oportunidad ==
    /\ pc = "abrir"
    /\ \E ok \in BOOLEAN :
         IF ok
         THEN /\ pc' = paso_siguiente("abrir")
              /\ error' = error
              /\ browser' = browser
         ELSE raise_from_main("NavigationError")
    /\ UNCHANGED <<bot, lista_precios, listing, run, i, j, session, listed,
                   sheet, calls, clock, match_vars, load_vars, aux_vars>>

\* the `else` of the datasheet test: wherex prints "Advertencia: No se
\* encontró ficha técnica ..."; the `if tech_path.exists()` of mp and
\* senegocia has no else
warns_missing_datasheet(b) == b = "wherex"

\* the steps of a postulation at which an exception may be raised: the first
\* click, before the datasheet is looked for, and the steps after it
\* (set_input_files, fill, the click on Enviar); "none" when none is
FailingSteps == {"none", "click", "enviar"}

\* postular_oportunidad / postulate / postulate_opportunity: the offer is sent,
\* or a step of it raises; mp and senegocia catch and print, wherex does not.
\* ficha: the datasheet <Codigo>.pdf exists; adjunto: it was uploaded;
\* advertencia: its absence was printed
postular_oportunidad ==
    /\ pc = "postular"
    /\ \E ficha \in BOOLEAN, raised \in FailingSteps :
         /\ calls' = Append(calls, [ejecucion |-> run, oportunidad |-> i,
                                    Codigo |-> lista_precios[j].Codigo,
                                    ok |-> (raised = "none"), t |-> clock,
                                    ficha |-> ficha,
                                    adjunto |-> (ficha /\ raised = "none"),
                                    advertencia |-> (/\ ~ficha
                                                     /\ raised # "click"
                                                     /\ warns_missing_datasheet(bot))])
         /\ IF raised = "none" \/ swallows_submit_error(bot)
            THEN /\ pc' = paso_siguiente("postular")
                 /\ error' = error
                 /\ browser' = browser
            ELSE raise_from_main("SubmissionFailure")
    /\ clock' = clock + 1
    /\ UNCHANGED <<bot, lista_precios, listing, run, i, j, session, listed,
                   sheet, match_vars, load_vars, aux_vars>>

\* registrar_postulacion / register_postulation: sheet.append_row
registrar_postulacion ==
    /\ pc = "registrar"
    /\ \E ok \in BOOLEAN :
         IF ok
         THEN /\ sheet' = Append(sheet, fila(lista_precios[j], bot, clock, i, run))
              /\ pc' = paso_siguiente("registrar")
              /\ error' = error
              /\ browser' = browser
         ELSE /\ sheet' = sheet
              /\ raise_from_main("LogWriteFailure")
    /\ clock' = clock + 1
    /\ UNCHANGED <<bot, lista_precios, listing, run, i, j, session, listed,
                   calls, match_vars, load_vars, aux_vars>>

\* page.go_back() and `break`
volver_a_lista ==
    /\ pc = "volver"
    /\ \E ok \in BOOLEAN :
         IF ok
         THEN /\ pc' = "scan"
              /\ i' = tras_postular(i, j).i
              /\ j' = tras_postular(i, j).j
              /\ error' = error
              /\ browser' = browser
         ELSE /\ raise_from_main("NavigationError")
              /\ UNCHANGED <<i, j>>
    /\ UNCHANGED <<bot, lista_precios, listing, run, session, listed,
                   sheet, calls, clock, match_vars, load_vars, aux_vars>>

\* the outer loop is exhausted: browser.close(), main() returns
cerrar_navegador ==
    /\ pc = "scan"
    /\ i > Len(listing)
    /\ pc' = "done"
    /\ browser' = "closed"
    /\ UNCHANGED <<bot, lista_precios, listing, run, i, j, session, listed,
                   error, sheet, calls, clock, match_vars, load_vars, aux_vars>>

\* Ctrl-C while main() runs: asyncio.run cancels main(), which is left through
\* its `async with` block; wherex_bot then catches the KeyboardInterrupt at
\* top level and prints, the other bots end with the traceback
keyboard_interrupt ==
    /\ pc \in {"cargar", "conectar", "login", "listar", "scan", "abrir",
               "postular", "registrar", "volver"}
    /\ raise_from_main("KeyboardInterrupt")
    /\ UNCHANGED <<bot, lista_precios, listing, run, i, j, session, listed,
                   sheet, calls, clock, match_vars, load_vars, aux_vars>>

\* the script is started again (`python wherex_bot.py`): everything but the
\* sheet is rebuilt; the portal still shows the same listing
nueva_ejecucion ==
    /\ pc \in {"done", "aborted"}
    /\ run < MaxRuns
    /\ run' = run + 1
    /\ pc' = "cargar"
    /\ i' = 1
    /\ j' = 1
    /\ session' = "none"
    /\ listed' = FALSE
    /\ browser' = "none"
    /\ error' = "none"
    /\ UNCHANGED <<bot, lista_precios, listing, sheet, calls, clock, match_vars, load_vars, aux_vars>>

\* ------------------------------------------------ find_matching_products
\* Python's None
None == [t |-> "none"]

\* the dataclass Product
Product(code, description, brand, category, price, image_path, datasheet_path) ==
    [code |-> code, description |-> description, brand |-> brand,
     category |-> category, price |-> price,
     image_path |-> image_path, datasheet_path |-> datasheet_path]

\* sample catalog entries: the first is found by its code, the second by its
\* description, the third is longer than any requested text
SampleProducts == {
    Product(<<"D">>, <<"j", "j", "j">>, <<"m">>, <<"c">>, 10000, None, None),
    Product(<<"j", "d", "j", "d">>, <<"d", "J">>, <<"m">>, <<"c">>, 2500, None, None),
    Product(<<"d", "d", "d", "d">>, <<"D", "d", "D", "d">>, <<"m">>, <<"c">>, 990, None, None) }

\* the test of the inner loop:
\* product.code.lower() in normalized_req or product.description.lower() in normalized_req
product_matches(product, normalized_req) ==
    \/ str_in(lower(product.code), normalized_req)
    \/ str_in(lower(product.description), normalized_req)

\* a variant of the inner loop that stops at the first match
first_match_for(req, prods) ==
    LET found == SelectSeq(prods, LAMBDA product : product_matches(product, lower(req)))
    IN  IF found = <<>> THEN <<>> ELSE <<Head(found)>>

\* the inner loop `for product in products` for one requested item
matches_for(req, prods) ==
    SelectSeq(prods, LAMBDA product : product_matches(product, lower(req)))

\* the outer loop `for req in requested_items`, appending to `matches`
RECURSIVE find_matching_products(_, _)
find_matching_products(reqs, prods) ==
    IF reqs = <<>>
    THEN <<>>
    ELSE matches_for(Head(reqs), prods) \o find_matching_products(Tail(reqs), prods)

\* a call of find_matching_products on the chosen arguments
call_find_matching_products ==
    /\ mpc = "input"
    /\ matches' = find_matching_products(requested_items, products)
    /\ mpc' = "returned"
    /\ UNCHANGED <<requested_items, products, bot_vars, load_vars, aux_vars>>

\* --------------------------------------------------------- load_price_list
\* A value read from the file: a text (a sequence of characters), a JSON
\* number, or None.
Str(v) == [t |-> "str", v |-> v]
Num(n) == [t |-> "num", n |-> n]

\* the keys load_price_list subscripts, in the order Product(...) evaluates them
RequiredKeys == <<"code", "description", "brand", "category", "price">>

\* path.suffix.lower()
suffix_lower(suffix) ==
    CASE suffix = ".CSV" -> ".csv"
      [] suffix = ".JSON" -> ".json"
      [] OTHER -> suffix

\* position of a column name in the header (0 when it is not a column)
column_of(header, name) ==
    IF \E k \in 1..Len(header) : header[k] = name
    THEN CHOOSE k \in 1..Len(header) : header[k] = name
    ELSE 0

\* csv.DictReader: one dict per data row, keyed by the header; a row shorter
\* than the header gets None (restval) for the columns it lacks
DictReader_row(header, row) ==
    [name \in {header[k] : k \in 1..Len(header)} |->
        IF column_of(header, name) <= Len(row)
        THEN Str(row[column_of(header, name)])
        ELSE None]

\* csv.DictReader skips the rows that are empty
DictReader(header, rows) ==
    LET kept == SelectSeq(rows, LAMBDA row : row # <<>>)
    IN  [k \in 1..Len(kept) |-> DictReader_row(header, kept[k])]

digit_value(c) ==
    CASE c = "0" -> 0 [] c = "1" -> 1 [] c = "2" -> 2 [] c = "3" -> 3 [] c = "4" -> 4
      [] c = "5" -> 5 [] c = "6" -> 6 [] c = "7" -> 7 [] c = "8" -> 8 [] c = "9" -> 9

is_digits(s) ==
    /\ s # <<>>
    /\ \A k \in 1..Len(s) : s[k] \in {"0", "1", "2", "3", "4", "5", "6", "7", "8", "9"}

RECURSIVE digits_value(_)
digits_value(s) ==
    IF s = <<>> THEN 0
    ELSE 10 * digits_value(SubSeq(s, 1, Len(s) - 1)) + digit_value(s[Len(s)])

\* float(x) for the values a price list holds: a number is kept, a text is
\* parsed as an optional sign and digits (ValueError otherwise), None is a
\* TypeError
float(x) ==
    CASE x.t = "num" -> [exc |-> "none", value |-> x.n]
      [] x.t = "none" -> [exc |-> "TypeError", value |-> 0]
      [] x.t = "str" ->
            IF is_digits(x.v)
            THEN [exc |-> "none", value |-> digits_value(x.v)]
            ELSE IF x.v # <<>> /\ Head(x.v) \in {"-", "+"} /\ is_digits(Tail(x.v))
            THEN [exc |-> "none",
                  value |-> IF Head(x.v) = "-" THEN 0 - digits_value(Tail(x.v))
                            ELSE digits_value(Tail(x.v))]
            ELSE [exc |-> "ValueError", value |-> 0]

\* Path(row[key]).resolve() if row.get(key) else None
optional_path(row, key) ==
    IF key \in DOMAIN row /\ row[key] # None /\ row[key] # Str(<<>>)
    THEN [t |-> "path", v |-> row[key].v]
    ELSE None

\* the Product(...) call for one row or object: row[key] raises KeyError for
\* a key the dict lacks, float() raises for a price it cannot convert
make_product(row) ==
    IF \E k \in 1..Len(RequiredKeys) : RequiredKeys[k] \notin DOMAIN row
    THEN [exc |-> "KeyError", product |-> None]
    ELSE IF float(row["price"]).exc # "none"
    THEN [exc |-> float(row["price"]).exc, product |-> None]
    ELSE [exc |-> "none",
          product |-> Product(row["code"], row["description"], row["brand"],
                              row["category"], float(row["price"]).value,
                              optional_path(row, "image_path"),
                              optional_path(row, "datasheet_path"))]

\* a variant of the loop that inserts each new Product at the front of the
\* list (products.insert(0, ...) instead of products.append(...))
RECURSIVE prepend_products(_, _)
prepend_products(dicts, acc) ==
    IF dicts = <<>>
    THEN [exc |-> "none", products |-> acc]
    ELSE IF make_product(Head(dicts)).exc # "none"
    THEN [exc |-> make_product(Head(dicts)).exc, products |-> <<>>]
    ELSE prepend_products(Tail(dicts), <<make_product(Head(dicts)).product>> \o acc)

\* the loop `for row in reader` / `for item in data`, appending to `products`
\* until a row raises
RECURSIVE append_products(_, _)
append_products(dicts, acc) ==
    IF dicts = <<>>
    THEN [exc |-> "none", products |-> acc]
    ELSE IF make_product(Head(dicts)).exc # "none"
    THEN [exc |-> make_product(Head(dicts)).exc, products |-> <<>>]
    ELSE append_products(Tail(dicts), Append(acc, make_product(Head(dicts)).product))

\* a variant of load_price_list without its final `else: raise ValueError`:
\* a file of any other suffix yields an empty list
load_price_list_sin_else(file) ==
    CASE suffix_lower(file.suffix) = ".csv" ->
            append_products(DictReader(file.header, file.rows), <<>>)
      [] suffix_lower(file.suffix) = ".json" ->
            append_products(file.items, <<>>)
      [] OTHER -> [exc |-> "none", products |-> <<>>]

\* load_price_list(path)
load_price_list(file) ==
    CASE suffix_lower(file.suffix) = ".csv" ->
            append_products(DictReader(file.header, file.rows), <<>>)
      [] suffix_lower(file.suffix) = ".json" ->
            append_products(file.items, <<>>)
      [] OTHER -> [exc |-> "ValueError: Unsupported price list format", products |-> <<>>]

\* a call of load_price_list on the chosen file
call_load_price_list ==
    /\ lpc = "input"
    /\ LET result == load_price_list(price_file)
       IN  /\ load_exc' = result.exc
           /\ loaded' = result.products
           /\ lpc' = IF result.exc = "none" THEN "returned" ELSE "raised"
    /\ UNCHANGED <<price_file, bot_vars, match_vars, aux_vars>>

\* --- sample price lists
\* headers: the documented order, the price column first, and one without
\* the brand and category columns
Headers == {
    <<"code", "description", "brand", "category", "price">>,
    <<"price", "code", "description", "brand", "category">>,
    <<"code", "description", "price">> }

CodeTexts == { <<"A", "1">>, <<"B", "2">> }
PriceTexts == { <<"1", "0">>, <<"-", "5">>, <<"a">> }

\* the cell of a sample row under a column
sample_cell(name, code, price) ==
    CASE name = "code" -> code
      [] name = "price" -> price
      [] name = "description" -> <<"d">>
      [] name = "brand" -> <<"m">>
      [] name = "category" -> <<"c">>

\* the data rows of a CSV with this header: any number of leading cells
CsvRows(header) ==
    {[k \in 1..n |-> sample_cell(header[k], code, price)] :
        n \in 0..Len(header), code \in CodeTexts, price \in PriceTexts}

\* a complete JSON object, and the same object without one key
json_object(code, price) ==
    [name \in {RequiredKeys[k] : k \in 1..Len(RequiredKeys)} |->
        IF name = "price" THEN price ELSE Str(sample_cell(name, code, <<>>))]

without_key(obj, key) == [name \in (DOMAIN obj) \ {key} |-> obj[name]]

JsonItems ==
    {json_object(code, price) :
        code \in CodeTexts, price \in {Num(10), Num(0 - 5), Str(<<"a">>), None}}
    \cup {without_key(json_object(<<"A", "1">>, Num(10)), RequiredKeys[k]) :
            k \in 1..Len(RequiredKeys)}

\* the file at `path`
csv_file(suffix, header, rows) ==
    [suffix |-> suffix, header |-> header, rows |-> rows, items |-> <<>>]

json_file(items) ==
    [suffix |-> ".json", header |-> <<>>, rows |-> <<>>, items |-> items]

other_file == [suffix |-> ".xlsx", header |-> <<>>, rows |-> <<>>, items |-> <<>>]

\* the file at `path` is one of the sample files of at most max rows or objects
some_price_file(max) ==
    \/ \E suffix \in {".csv", ".CSV"}, header \in Headers, n \in 0..max :
          \E rows \in [1..n -> CsvRows(header)] :
              price_file = csv_file(suffix, header, rows)
    \/ \E n \in 0..max :
          \E items \in [1..n -> JsonItems] : price_file = json_file(items)
    \/ price_file = other_file

LoadInit ==
    /\ some_price_file(MaxRows)
    /\ loaded = <<>>
    /\ load_exc = "none"
    /\ lpc = "input"

\* the loader's variables while it is not exercised
LoadIdle ==
    /\ price_file = [suffix |-> "", header |-> <<>>, rows |-> <<>>, items |-> <<>>]
    /\ loaded = <<>>
    /\ load_exc = "none"
    /\ lpc = "idle"

\* main() of wherex_mass_postulate.py while it does not run
MainIdle ==
    /\ username = None
    /\ password = None
    /\ main_pc = "idle"
    /\ main_browser = "none"
    /\ login_called = FALSE
    /\ main_error = "none"

\* load_config while it is not exercised
ConfigIdle ==
    /\ environ = <<>>
    /\ config_toml = <<>>
    /\ tomllib = FALSE
    /\ cfg = <<>>
    /\ cpc = "idle"

\* the orchestrator while it does not run
OrchestratorIdle ==
    /\ agents = <<>>
    /\ at = 1
    /\ opc = "idle"
    /\ visited = <<>>
    /\ output = <<>>

\* no bot runs while the matcher or the loader is exercised
BotIdle ==
    /\ bot = "wherex"
    /\ lista_precios = <<>>
    /\ listing = <<>>
    /\ pc = "idle"
    /\ run = 1
    /\ i = 1
    /\ j = 1
    /\ session = "none"
    /\ listed = FALSE
    /\ browser = "none"
    /\ error = "none"
    /\ sheet = <<>>
    /\ calls = <<>>
    /\ clock = 0

MatchInit ==
    /\ requested_items \in SeqsUpTo(StringsUpTo(MaxTextLen), MaxReq)
    /\ products \in SeqsUpTo(SampleProducts, MaxCatalog)
    /\ matches = <<>>
    /\ mpc = "input"

InitMatch == BotIdle /\ LoadIdle /\ MatchInit /\ MainIdle /\ ConfigIdle /\ OrchestratorIdle

SpecMatch == InitMatch /\ [][call_find_matching_products]_vars

\* the matcher's variables while a bot runs
MatchIdle ==
    /\ requested_items = <<>>
    /\ products = <<>>
    /\ matches = <<>>
    /\ mpc = "idle"

InitLoad == BotIdle /\ MatchIdle /\ LoadInit /\ MainIdle /\ ConfigIdle /\ OrchestratorIdle

SpecLoad == InitLoad /\ [][call_load_price_list]_vars

Init == BotInit /\ MatchIdle /\ LoadIdle /\ MainIdle /\ ConfigIdle /\ OrchestratorIdle

\* one execution of main()
Next ==
    \/ cargar_lista_precios
    \/ conectar_google_sheet
    \/ login_wherex
    \/ listar_oportunidades
    \/ comparar_producto
    \/ siguiente_oportunidad
    \/ abrir_oportunidad
    \/ postular_oportunidad
    \/ registrar_postulacion
    \/ volver_a_lista
    \/ cerrar_navegador

Spec == Init /\ [][Next]_vars

\* one execution of main() that the user may interrupt
NextInterrupted == Next \/ keyboard_interrupt

SpecInterrupted == Init /\ [][NextInterrupted]_vars

\* up to MaxRuns executions of the script, one after the other, over the same
\* listing and the same sheet
NextRuns == Next \/ nueva_ejecucion

SpecRuns == Init /\ [][NextRuns]_vars

\* ------------------------------------------------------- facebook_bot.py
\* main() of the Facebook bot has the steps of the other bots up to the login
\* (cargar_lista_precios, conectar_google_sheet, login_wherex model its
\* load_price_list, init_sheets and launch, login_facebook); pc = "listar" is
\* then the head of the loop of its process_opportunities.
FacebookInit ==
    /\ bot = "facebook"
    /\ lista_precios \in SeqsUpTo(PriceRows, MaxCatalog)
    /\ listing \in SeqsUpTo(OppTexts, MaxOpps)
    /\ pc = "cargar"
    /\ run = 1
    /\ i = 1
    /\ j = 1
    /\ session = "none"
    /\ listed = FALSE
    /\ browser = "none"
    /\ error = "none"
    /\ sheet = <<>>
    /\ calls = <<>>
    /\ clock = 0

\* a variant of the loop that postulates only the rows some opportunity of
\* the portal matches, as the other bots do
facebook_postulate_matched ==
    /\ bot = "facebook"
    /\ pc = "listar"
    /\ j <= Len(lista_precios)
    /\ IF \E n \in 1..Len(listing) : coincide(lista_precios[j], listing[n])
       THEN pc' = "fb_register" /\ j' = j
       ELSE pc' = pc /\ j' = j + 1
    /\ UNCHANGED <<bot, lista_precios, listing, run, i, session, listed,
                   browser, error, sheet, calls, clock, match_vars, load_vars,
                   aux_vars>>

\* `for _, product in price_list.iterrows(): await postulate(page, product)`:
\* the next row is taken and postulate, whose body is `pass`, returns
facebook_postulate ==
    /\ bot = "facebook"
    /\ pc = "listar"
    /\ j <= Len(lista_precios)
    /\ pc' = "fb_register"
    /\ UNCHANGED <<bot, lista_precios, listing, run, i, j, session, listed,
                   browser, error, sheet, calls, clock, match_vars, load_vars,
                   aux_vars>>

\* register_postulation(sheet, product): sheet.append_row, then the loop
\* goes on with the next row
facebook_register_postulation ==
    /\ pc = "fb_register"
    /\ \E ok \in BOOLEAN :
         IF ok
         THEN /\ sheet' = Append(sheet, fila(lista_precios[j], bot, clock, 0, run))
              /\ pc' = "listar"
              /\ j' = j + 1
              /\ error' = error
              /\ browser' = browser
         ELSE /\ sheet' = sheet
              /\ j' = j
              /\ raise_from_main("LogWriteFailure")
    /\ clock' = clock + 1
    /\ UNCHANGED <<bot, lista_precios, listing, run, i, session, listed,
                   calls, match_vars, load_vars, aux_vars>>

\* the loop is exhausted: browser.close(), main() returns
facebook_close ==
    /\ bot = "facebook"
    /\ pc = "listar"
    /\ j > Len(lista_precios)
    /\ pc' = "done"
    /\ browser' = "closed"
    /\ UNCHANGED <<bot, lista_precios, listing, run, i, j, session, listed,
                   error, sheet, calls, clock, match_vars, load_vars, aux_vars>>

InitFacebook ==
    FacebookInit /\ MatchIdle /\ LoadIdle /\ MainIdle /\ ConfigIdle /\ OrchestratorIdle

NextFacebook ==
    \/ cargar_lista_precios
    \/ conectar_google_sheet
    \/ login_wherex
    \/ facebook_postulate
    \/ facebook_register_postulation
    \/ facebook_close

SpecFacebook == InitFacebook /\ [][NextFacebook]_vars

\* ------------------------------------- main() of wherex_mass_postulate.py
\* Python's `not x` for the value of an environment variable
falsy(x) == x = None \/ x = Str(<<>>)

\* a variant of login whose body is implemented: it returns once the page
\* has been reached
login_implemented(reached) == IF reached THEN "none" ELSE "NavigationError"

\* login(page, username, password): the exception it raises; page.goto()
\* fails, or the body ends in `raise NotImplementedError`
login(reached) == IF reached THEN "NotImplementedError" ELSE "NavigationError"

\* an exception leaves main() of the mass script
main_raise(exc) ==
    /\ main_pc' = "aborted"
    /\ main_error' = exc
    /\ main_browser' = exit_async_with(main_browser)

MainInit ==
    /\ username \in {None, Str(<<>>), Str(<<"u">>)}
    /\ password \in {None, Str(<<>>), Str(<<"p">>)}
    /\ main_pc = "env"
    /\ main_browser = "none"
    /\ login_called = FALSE
    /\ main_error = "none"
    /\ some_price_file(MaxMainRows)
    /\ loaded = <<>>
    /\ load_exc = "none"
    /\ lpc = "idle"

\* os.getenv of the credentials and `if not username or not password`
main_getenv ==
    /\ main_pc = "env"
    /\ IF falsy(username) \/ falsy(password)
       THEN main_raise("RuntimeError")
       ELSE /\ main_pc' = "load"
            /\ UNCHANGED <<main_error, main_browser>>
    /\ UNCHANGED <<username, password, login_called, bot_vars, match_vars,
                   load_vars, cfg_vars, orch_vars>>

\* products = load_price_list(Path(price_list_path))
main_load_price_list ==
    /\ main_pc = "load"
    /\ LET result == load_price_list(price_file)
       IN  /\ load_exc' = result.exc
           /\ loaded' = result.products
           /\ IF result.exc = "none"
              THEN /\ main_pc' = "launch"
                   /\ UNCHANGED <<main_error, main_browser>>
              ELSE main_raise(result.exc)
    /\ UNCHANGED <<username, password, login_called, price_file, lpc,
                   bot_vars, match_vars, cfg_vars, orch_vars>>

\* `async with async_playwright() as p`, chromium.launch(headless=False),
\* new_context() and new_page()
main_launch ==
    /\ main_pc = "launch"
    /\ \E ok \in BOOLEAN :
         IF ok
         THEN /\ main_pc' = "login"
              /\ main_browser' = "open"
              /\ main_error' = main_error
         ELSE main_raise("LaunchError")
    /\ UNCHANGED <<username, password, login_called, bot_vars, match_vars,
                   load_vars, cfg_vars, orch_vars>>

\* await login(page, username, password); list_new_tenders is the next
\* statement of main()
main_login ==
    /\ main_pc = "login"
    /\ login_called' = TRUE
    /\ \E reached \in BOOLEAN :
         IF login(reached) = "none"
         THEN /\ main_pc' = "list_new_tenders"
              /\ UNCHANGED <<main_error, main_browser>>
         ELSE main_raise(login(reached))
    /\ UNCHANGED <<username, password, bot_vars, match_vars, load_vars,
                   cfg_vars, orch_vars>>

InitMain == BotIdle /\ MatchIdle /\ MainInit /\ ConfigIdle /\ OrchestratorIdle

NextMain ==
    \/ main_getenv
    \/ main_load_price_list
    \/ main_launch
    \/ main_login

SpecMain == InitMain /\ [][NextMain]_vars

\* ------------------------------------------------------------ load_config
\* load_config of mp_bot.py; senegocia_bot.py and facebook_bot.py have the
\* same function with SENEGOCIA_ / FB_ credentials and their own table name.
\* A text is Str(<<token>>), the empty text Str(<<>>).
ConfigKeys == {"MP_USER", "MP_PASS", "SHEETS_ID", "PRICE_LIST_PATH", "TECH_SHEET_DIR"}

\* where config.toml holds the value of a key: its table and its name there
toml_table(key) ==
    CASE key \in {"MP_USER", "MP_PASS"} -> "mp"
      [] key = "SHEETS_ID" -> "sheets"
      [] key = "PRICE_LIST_PATH" -> "data"
      [] key = "TECH_SHEET_DIR" -> "files"

toml_name(key) ==
    CASE key = "MP_USER" -> "user"
      [] key = "MP_PASS" -> "pass"
      [] key = "SHEETS_ID" -> "sheet_id"
      [] key = "PRICE_LIST_PATH" -> "price_list_path"
      [] key = "TECH_SHEET_DIR" -> "tech_sheet_dir"

\* the second argument of os.getenv, None when there is none
getenv_default(key) ==
    CASE key = "PRICE_LIST_PATH" -> Str(<<"data/lista_precios.csv">>)
      [] key = "TECH_SHEET_DIR" -> Str(<<"fichas_tecnicas">>)
      [] OTHER -> None

\* os.getenv(key, default)
getenv(env, key) == IF env[key] = None THEN getenv_default(key) ELSE env[key]

\* dict.get(name, default)
dict_get(table, name, default) ==
    IF name \in DOMAIN table THEN table[name] ELSE default

\* the statement that merges the table of config.toml into cfg[key]:
\* `cfg[key] or table.get(name)` for the credentials and the sheet id,
\* `table.get(name, cfg[key])` for the two paths
merge(key, value, table) ==
    IF key \in {"PRICE_LIST_PATH", "TECH_SHEET_DIR"}
    THEN dict_get(table, toml_name(key), value)
    ELSE IF falsy(value) THEN dict_get(table, toml_name(key), None) ELSE value

\* load_config()
load_config(env, file, has_tomllib) ==
    [key \in ConfigKeys |->
        IF file.exists /\ has_tomllib /\ toml_table(key) \in DOMAIN file.data
        THEN merge(key, getenv(env, key), file.data[toml_table(key)])
        ELSE getenv(env, key)]

\* sample environments and config files
EnvValues == {None, Str(<<>>), Str(<<"env">>)}

TomlTables(table) ==
    {[name \in names |-> Str(<<"file">>)] :
        names \in SUBSET {toml_name(key) : key \in {q \in ConfigKeys : toml_table(q) = table}}}

TomlData ==
    UNION {{d \in [tables -> UNION {TomlTables(t) : t \in tables}] :
                \A t \in tables : d[t] \in TomlTables(t)} :
           tables \in SUBSET {"mp", "sheets", "data", "files"}}

ConfigInit ==
    /\ environ \in [ConfigKeys -> EnvValues]
    /\ tomllib \in BOOLEAN
    /\ \/ config_toml = [exists |-> FALSE, data |-> <<>>]
       \/ \E data \in TomlData : config_toml = [exists |-> TRUE, data |-> data]
    /\ cfg = <<>>
    /\ cpc = "input"

\* a call of load_config
call_load_config ==
    /\ cpc = "input"
    /\ cfg' = load_config(environ, config_toml, tomllib)
    /\ cpc' = "returned"
    /\ UNCHANGED <<environ, config_toml, tomllib, bot_vars, match_vars,
                   load_vars, main_vars, orch_vars>>

InitConfig == BotIdle /\ MatchIdle /\ LoadIdle /\ MainIdle /\ ConfigInit /\ OrchestratorIdle

SpecConfig == InitConfig /\ [][call_load_config]_vars

\* ------------------------------------------------- vendedor360 orchestrator
\* the names AGENTS may hold: the active entry and the commented-out ones
AgentNames == {"wherex", "mercado_publico", "senegocia", "lissy"}

\* AGENTS.items(): a dict has each key once, in insertion order
AgentLists ==
    {a \in SeqsUpTo(AgentNames, MaxAgents) :
        \A m, n \in 1..Len(a) : a[m] = a[n] => m = n}

\* what happens to one bot: its script is missing, subprocess.run raises
\* (the interpreter cannot be started), or the child exits with a return code
Outcomes == {"missing", "launch_error", "rc0", "rc1"}

\* the lines run_bot prints for a bot, as <<level, name>>
lines_of(name, outcome) ==
    CASE outcome = "missing" -> << <<"WARN", name>> >>
      [] outcome = "launch_error" -> << <<"INFO", name>>, <<"ERROR", name>> >>
      [] OTHER -> << <<"INFO", name>>, <<"INFO", name>> >>

OrchestratorInit ==
    /\ agents \in AgentLists
    /\ at = 1
    /\ opc = "loop"
    /\ visited = <<>>
    /\ output = << <<"INFO", "orchestrator">> >>

\* a variant of run_bot that calls subprocess.run(..., check=True) outside
\* any try: a launch failure or a non-zero return code leaves main()
run_bot_check ==
    /\ opc = "loop"
    /\ at <= Len(agents)
    /\ \E outcome \in Outcomes :
         /\ visited' = Append(visited, [name |-> agents[at], outcome |-> outcome,
                                        launched |-> outcome # "missing"])
         /\ output' = output \o lines_of(agents[at], outcome)
         /\ IF outcome \in {"launch_error", "rc1"}
            THEN opc' = "aborted" /\ at' = at
            ELSE opc' = opc /\ at' = at + 1
    /\ UNCHANGED <<agents, bot_vars, match_vars, load_vars, main_vars, cfg_vars>>

\* one iteration of `for name, path in AGENTS.items(): run_bot(name, path)`:
\* a missing script is reported and skipped; otherwise subprocess.run with
\* check=False inside try/except Exception, so run_bot always returns
run_bot ==
    /\ opc = "loop"
    /\ at <= Len(agents)
    /\ \E outcome \in Outcomes :
         /\ visited' = Append(visited, [name |-> agents[at], outcome |-> outcome,
                                        launched |-> outcome # "missing"])
         /\ output' = output \o lines_of(agents[at], outcome)
    /\ at' = at + 1
    /\ opc' = opc
    /\ UNCHANGED <<agents, bot_vars, match_vars, load_vars, main_vars, cfg_vars>>

\* the loop is exhausted: print("[INFO] All bots finished"), main() returns
all_bots_finished ==
    /\ opc = "loop"
    /\ at > Len(agents)
    /\ opc' = "done"
    /\ output' = Append(output, <<"INFO", "orchestrator">>)
    /\ UNCHANGED <<agents, at, visited, bot_vars, match_vars, load_vars,
                   main_vars, cfg_vars>>

InitOrchestrator ==
    BotIdle /\ MatchIdle /\ LoadIdle /\ MainIdle /\ ConfigIdle /\ OrchestratorInit

NextOrchestrator == run_bot \/ all_bots_finished

SpecOrchestrator == InitOrchestrator /\ [][NextOrchestrator]_vars

\* -------------------------------------------------------------- properties
\* rows the current run appended, calls the current run made
RowsOfRun == SelectSeq(sheet, LAMBDA r : r.ejecucion = run)
CallsOfRun == SelectSeq(calls, LAMBDA c : c.ejecucion = run)

\* price-list rows whose description is contained, ignoring case, in the text
\* of opportunity k
Contained(k) ==
    {p \in 1..Len(lista_precios) :
        str_in(lower(lista_precios[p].Descripcion), lower(listing[k]))}

\* the first such row in file order
FirstContained(k) == CHOOSE p \in Contained(k) : \A q \in Contained(k) : p <= q

InBody == pc \in {"abrir", "postular", "registrar", "volver"}

\* C1: every row of the sheet was appended after a postulation call of the
\* same run, for the same opportunity and the same product, had returned.
C1_SubmitBeforeLog ==
    \A k \in 1..Len(sheet) :
        \E c \in 1..Len(calls) :
            /\ calls[c].ejecucion = sheet[k].ejecucion
            /\ calls[c].oportunidad = sheet[k].oportunidad
            /\ calls[c].Codigo = sheet[k].Codigo
            /\ calls[c].t < sheet[k].fecha

\* C1 witness: two opportunities were postulated and logged in one run.
C1_Witness == pc = "done" /\ Len(sheet) = 2 /\ Len(calls) = 2

\* C2 (as specified): every row of the sheet stands for a postulation that was
\* actually sent: its call of the same run, opportunity and product succeeded.
C2_LogOnlyActualSubmissions ==
    \A k \in 1..Len(sheet) :
        \E c \in 1..Len(calls) :
            /\ calls[c].ejecucion = sheet[k].ejecucion
            /\ calls[c].oportunidad = sheet[k].oportunidad
            /\ calls[c].Codigo = sheet[k].Codigo
            /\ calls[c].t < sheet[k].fecha
            /\ calls[c].ok

\* C3 (as specified): a failing postulation never ends the run.
C3_SubmitFailureNeverAborts ==
    ~(pc = "aborted" /\ error = "SubmissionFailure")

C5_NothingForUnmatched ==
    /\ \A c \in 1..Len(calls) : Contained(calls[c].oportunidad) # {}
    /\ \A k \in 1..Len(sheet) : Contained(sheet[k].oportunidad) # {}
    /\ (InBody => Contained(i) # {})

\* C5, step part: while the scan is at such an opportunity every step leaves
\* calls and sheet alone and moves on, to the next row or the next opportunity.
C5_UnmatchedStep ==
    (pc = "scan" /\ i <= Len(listing) /\ Contained(i) = {}) =>
        /\ calls' = calls
        /\ sheet' = sheet
        /\ pc' = "scan"
        /\ \/ (i' = i /\ j' = j + 1)
           \/ (i' = i + 1 /\ j' = 1)

\* C5: an opportunity that matches no product is skipped: no postulation, no
\* row, and the scan advances.
C5_SkipUnmatched == []C5_NothingForUnmatched /\ [][C5_UnmatchedStep]_vars

\* C5 witness: the run went past an unmatched first opportunity, with a
\* non-empty price list, and then postulated the second one.
C5_Witness ==
    /\ pc = "done"
    /\ Len(listing) = 2
    /\ lista_precios # <<>>
    /\ Contained(1) = {}
    /\ Len(sheet) = 1

\* C6 (as specified): when the run is done, every product matching an
\* opportunity has been postulated for it.
C6_OneSubmitPerMatch ==
    pc = "done" =>
        \A k \in 1..Len(listing) : \A p \in Contained(k) :
            \E c \in 1..Len(CallsOfRun) :
                /\ CallsOfRun[c].oportunidad = k
                /\ CallsOfRun[c].Codigo = lista_precios[p].Codigo

\* C6 (amended): for each opportunity a run makes at most one postulation
\* call and appends at most one row, both for the first matching product in
\* price-list order; a run that is done has made exactly that one call for
\* every opportunity with a match.
C6_FirstMatchOnly ==
    /\ \A c \in 1..Len(calls) :
          /\ Contained(calls[c].oportunidad) # {}
          /\ calls[c].Codigo = lista_precios[FirstContained(calls[c].oportunidad)].Codigo
          /\ \A d \in 1..Len(calls) :
                (calls[d].ejecucion = calls[c].ejecucion
                    /\ calls[d].oportunidad = calls[c].oportunidad) => d = c
    /\ \A k \in 1..Len(sheet) :
          /\ Contained(sheet[k].oportunidad) # {}
          /\ sheet[k].Codigo = lista_precios[FirstContained(sheet[k].oportunidad)].Codigo
          /\ \A m \in 1..Len(sheet) :
                (sheet[m].ejecucion = sheet[k].ejecucion
                    /\ sheet[m].oportunidad = sheet[k].oportunidad) => m = k
    /\ pc = "done" =>
          \A k \in 1..Len(listing) :
              Contained(k) # {} =>
                  \E c \in 1..Len(CallsOfRun) : CallsOfRun[c].oportunidad = k

\* C6 witness: a finished run over an opportunity that matches two different
\* products made one call, for the first of them.
C6_Witness ==
    /\ pc = "done"
    /\ Len(listing) = 1
    /\ Cardinality(Contained(1)) = 2
    /\ lista_precios[1].Codigo # lista_precios[2].Codigo
    /\ Len(calls) = 1
    /\ calls[1].Codigo = lista_precios[1].Codigo
    /\ Len(sheet) = 1

\* C8: a finished run over a single opportunity whose text contains the
\* description of exactly one price-list row, and whose postulation succeeded,
\* made exactly one call and appended exactly one row, with the code and the
\* price of that row.
C8_SingleMatchEndToEnd ==
    (/\ pc = "done"
     /\ Len(listing) = 1
     /\ Cardinality(Contained(1)) = 1
     /\ \A c \in 1..Len(CallsOfRun) : CallsOfRun[c].ok)
    => /\ Len(CallsOfRun) = 1
       /\ Len(RowsOfRun) = 1
       /\ RowsOfRun[1].Codigo = lista_precios[FirstContained(1)].Codigo
       /\ RowsOfRun[1].Precio = lista_precios[FirstContained(1)].Precio
       /\ CallsOfRun[1].Codigo = RowsOfRun[1].Codigo

\* C8 witness: such a run, over a price list with a second row that does not
\* match.
C8_Witness ==
    /\ pc = "done"
    /\ Len(listing) = 1
    /\ Len(lista_precios) = 2
    /\ Contained(1) = {2}
    /\ Len(calls) = 1
    /\ calls[1].ok
    /\ Len(sheet) = 1
    /\ sheet[1].Precio = 2500

\* C9 (as specified): no postulation call is made for an opportunity for which
\* the sheet already holds a row.
C9_NoRepeatedPostulation ==
    \A c \in 1..Len(calls) :
        ~ \E k \in 1..Len(sheet) :
              /\ sheet[k].oportunidad = calls[c].oportunidad
              /\ sheet[k].fecha < calls[c].t

\* the elements of a sequence
Range(seq) == {seq[k] : k \in 1..Len(seq)}

\* containment ignoring case, in the two directions the specification names
CodeInText(p, req) == str_in(lower(p.code), lower(req))
DescriptionInText(p, req) == str_in(lower(p.description), lower(req))
TextInDescription(p, req) == str_in(lower(req), lower(p.description))

\* C7 (as specified): the products returned are exactly the catalog products
\* whose code or description is contained in a requested text, or whose
\* description contains the requested text, ignoring case.
C7_MatchBothDirections ==
    mpc = "returned" =>
        Range(matches) =
            {p \in Range(products) :
                \E k \in 1..Len(requested_items) :
                    \/ CodeInText(p, requested_items[k])
                    \/ DescriptionInText(p, requested_items[k])
                    \/ TextInDescription(p, requested_items[k])}

\* C7 (amended): the products returned are all and only the catalog products
\* whose code or description is contained, ignoring case, in a requested text,
\* every one of them and in catalog order; a requested text that is merely
\* contained in a description does not match.
C7_MatchCodeOrDescriptionInText ==
    mpc = "returned" =>
        /\ Range(matches) =
              {p \in Range(products) :
                  \E k \in 1..Len(requested_items) :
                      \/ CodeInText(p, requested_items[k])
                      \/ DescriptionInText(p, requested_items[k])}
        /\ Len(requested_items) = 1 =>
              matches = SelectSeq(products, LAMBDA p :
                          \/ CodeInText(p, requested_items[1])
                          \/ DescriptionInText(p, requested_items[1]))

\* C7 witness: one requested text, in upper case, returned two different
\* products, one found by its code and one by its description, and left out
\* neither.
C7_Witness ==
    /\ mpc = "returned"
    /\ Len(requested_items) = 1
    /\ Len(products) = 2
    /\ Len(matches) = 2
    /\ matches[1] # matches[2]
    /\ \E p \in Range(matches) :
          CodeInText(p, requested_items[1]) /\ ~DescriptionInText(p, requested_items[1])
    /\ \E p \in Range(matches) :
          DescriptionInText(p, requested_items[1]) /\ ~CodeInText(p, requested_items[1])
    /\ requested_items[1] # lower(requested_items[1])

\* a CSV data row or a JSON object of the file lacks a required field: the
\* header has no such column or the row ends before it; the object has no
\* such key
LacksRequiredField ==
    \/ /\ suffix_lower(price_file.suffix) = ".csv"
       /\ \E r \in 1..Len(price_file.rows) :
             /\ price_file.rows[r] # <<>>
             /\ \E k \in 1..Len(RequiredKeys) :
                   \/ \A c \in 1..Len(price_file.header) :
                         price_file.header[c] # RequiredKeys[k]
                   \/ \E c \in 1..Len(price_file.header) :
                         /\ price_file.header[c] = RequiredKeys[k]
                         /\ c > Len(price_file.rows[r])
    \/ /\ suffix_lower(price_file.suffix) = ".json"
       /\ \E r \in 1..Len(price_file.items) :
             \E k \in 1..Len(RequiredKeys) :
                 RequiredKeys[k] \notin DOMAIN price_file.items[r]

\* C10 (as specified): loading a price list one of whose rows or objects lacks
\* a required field raises, and returns no products.
C10_MalformedNeverLoads ==
    (lpc # "input" /\ LacksRequiredField) => (lpc = "raised" /\ loaded = <<>>)

\* the price list main() is given has a suffix load_price_list does not read
UnsupportedSuffix == suffix_lower(price_file.suffix) \notin {".csv", ".json"}

UnsupportedFormat == "ValueError: Unsupported price list format"

\* C11: with a price list whose suffix is neither .csv nor .json, a run of
\* main() never gets past the load: no browser is launched and login is never
\* called, and once the credentials were accepted the run has ended with the
\* unsupported-format error of load_price_list.
C11_UnsupportedFormatBeforeNetwork ==
    (UnsupportedSuffix /\ main_pc # "idle") =>
        /\ main_pc \in {"env", "load", "aborted"}
        /\ main_browser = "none"
        /\ ~login_called
        /\ (main_pc = "aborted" =>
               \/ main_error = "RuntimeError" /\ load_exc = "none"
               \/ main_error = UnsupportedFormat /\ load_exc = UnsupportedFormat)

C11_Witness ==
    /\ UnsupportedSuffix
    /\ main_pc = "aborted"
    /\ main_error = UnsupportedFormat
    /\ main_browser = "none"

\* the records of the price list, in file order: the data rows of a CSV,
\* the objects of a JSON array
Records(file) ==
    IF suffix_lower(file.suffix) = ".csv" THEN file.rows ELSE file.items

\* record r of the file has every required field
HasRequiredFields(file, r) ==
    IF suffix_lower(file.suffix) = ".csv"
    THEN \A n \in 1..Len(RequiredKeys) :
            /\ column_of(file.header, RequiredKeys[n]) > 0
            /\ column_of(file.header, RequiredKeys[n]) <= Len(file.rows[r])
    ELSE \A n \in 1..Len(RequiredKeys) : RequiredKeys[n] \in DOMAIN file.items[r]

\* the code and the price record r of the file holds
InputCode(file, r) ==
    IF suffix_lower(file.suffix) = ".csv"
    THEN Str(file.rows[r][column_of(file.header, "code")])
    ELSE file.items[r]["code"]

InputPrice(file, r) ==
    IF suffix_lower(file.suffix) = ".csv"
    THEN Str(file.rows[r][column_of(file.header, "price")])
    ELSE file.items[r]["price"]

\* the text or JSON value is a decimal number
IsNumeric(x) ==
    \/ x.t = "num"
    \/ /\ x.t = "str"
       /\ \/ is_digits(x.v)
          \/ x.v # <<>> /\ Head(x.v) \in {"-", "+"} /\ is_digits(Tail(x.v))

\* the number a numeric text or JSON value denotes is below zero
IsNegative(x) ==
    \/ x.t = "num" /\ x.n < 0
    \/ x.t = "str" /\ x.v # <<>> /\ Head(x.v) = "-" /\ is_digits(Tail(x.v))
                  /\ digits_value(Tail(x.v)) > 0

\* a well-formed price list: a .csv or .json file each of whose records has
\* every required field and a numeric price
WellFormed(file) ==
    /\ suffix_lower(file.suffix) \in {".csv", ".json"}
    /\ \A r \in 1..Len(Records(file)) :
          HasRequiredFields(file, r) /\ IsNumeric(InputPrice(file, r))

\* C12: loading a well-formed CSV or JSON price list returns one Product per
\* row or object, in file order: the code of the r-th Product is the code of
\* the r-th record.
C12_OneProductPerRecordInOrder ==
    (lpc # "input" /\ WellFormed(price_file)) =>
        /\ lpc = "returned"
        /\ Len(loaded) = Len(Records(price_file))
        /\ \A r \in 1..Len(loaded) : loaded[r].code = InputCode(price_file, r)

C12_Witness ==
    /\ WellFormed(price_file)
    /\ lpc = "returned"
    /\ Len(loaded) = 2
    /\ loaded[1].code # loaded[2].code

\* C13 (as specified): every Product of a loaded price list has a price that
\* is not negative, and a price list with a record whose price is negative or
\* not numeric does not load.
C13_NonNegativePrices ==
    /\ lpc = "returned" => \A r \in 1..Len(loaded) : loaded[r].price >= 0
    /\ (/\ lpc # "input"
        /\ suffix_lower(price_file.suffix) \in {".csv", ".json"}
        /\ \E r \in 1..Len(Records(price_file)) :
              /\ HasRequiredFields(price_file, r)
              /\ \/ ~IsNumeric(InputPrice(price_file, r))
                 \/ IsNegative(InputPrice(price_file, r)))
       => lpc = "raised"

\* the environment supplies a value for the key: the variable is set and
\* not empty
EnvSupplies(key) == ~falsy(environ[key])

\* config.toml supplies a value for the key
FileSupplies(key) ==
    /\ config_toml.exists
    /\ toml_table(key) \in DOMAIN config_toml.data
    /\ toml_name(key) \in DOMAIN config_toml.data[toml_table(key)]

\* C14 (as specified): for every key that both the environment and
\* config.toml supply, load_config returns the value of the environment.
C14_EnvironmentTakesPrecedence ==
    cpc = "returned" =>
        \A key \in ConfigKeys :
            (EnvSupplies(key) /\ FileSupplies(key)) => cfg[key] = environ[key]

\* C15: once the browser has been launched it does not outlive the run:
\* when main() has returned it was closed by browser.close(), and when an
\* exception or an interruption has left main() it was terminated on the way
\* out of the `async with` block; a run that ends before the launch has no
\* browser.
C15_BrowserClosedOnEveryExit ==
    /\ browser = "open" => pc \notin {"done", "aborted"}
    /\ pc = "done" => browser = "closed"
    /\ pc = "aborted" => browser \in {"none", "terminated"}
    /\ (pc = "aborted" /\ session # "none") => browser = "terminated"

C15_Witness ==
    /\ pc = "aborted"
    /\ error = "KeyboardInterrupt"
    /\ calls # <<>>
    /\ browser = "terminated"

\* C16: the orchestrator calls run_bot for the agents one at a time in
\* AGENTS order, each once; nothing a bot does ends the loop early (the
\* orchestrator is never aborted and can always take its next step until it
\* is done), at the end every agent has been visited, and a missing script
\* is not launched and is reported with a warning.
C16_OrchestratorVisitsAll ==
    /\ opc \in {"loop", "done"}
    /\ Len(visited) = at - 1
    /\ Len(visited) <= Len(agents)
    /\ \A n \in 1..Len(visited) : visited[n].name = agents[n]
    /\ opc = "done" => Len(visited) = Len(agents)
    /\ \A n \in 1..Len(visited) :
          visited[n].outcome = "missing" =>
              /\ ~visited[n].launched
              /\ \E m \in 1..Len(output) : output[m] = <<"WARN", visited[n].name>>
    /\ (opc = "done" \/ ENABLED NextOrchestrator)

C16_Witness ==
    /\ opc = "done"
    /\ Len(agents) = 3
    /\ visited[1].outcome = "missing"
    /\ visited[2].outcome = "rc1"
    /\ visited[3].outcome = "launch_error"

\* C17: no run of main() of the mass script gets past login: control never
\* reaches list_new_tenders, so no tender list is obtained and
\* create_offer_for_tender is never called; a run that has ended was aborted
\* by the credentials check, by the load, by the launch or by login itself,
\* which always raises.
C17_NeverPastLogin ==
    /\ main_pc \in {"idle", "env", "load", "launch", "login", "aborted"}
    /\ main_pc = "aborted" =>
          /\ main_error # "none"
          /\ login_called => main_error \in {"NotImplementedError", "NavigationError"}
    /\ login_called => main_pc = "aborted"

C17_Witness ==
    /\ main_pc = "aborted"
    /\ login_called
    /\ main_error = "NotImplementedError"
    /\ Len(loaded) = 1

\* C18 (as specified): a postulation for a product whose datasheet file is
\* missing is sent without the attachment and with a warning printed, and
\* when the run is done it has a row in the sheet.
C18_MissingDatasheetWarned ==
    \A c \in 1..Len(calls) :
        (calls[c].ok /\ ~calls[c].ficha) =>
            /\ ~calls[c].adjunto
            /\ calls[c].advertencia
            /\ pc = "done" =>
                  \E n \in 1..Len(sheet) :
                      /\ sheet[n].ejecucion = calls[c].ejecucion
                      /\ sheet[n].oportunidad = calls[c].oportunidad
                      /\ sheet[n].Codigo = calls[c].Codigo

====
